---- MODULE Spec2Model ----
(***************************************************************************)
(* GIFBot (src/bot.py), EnhancedFeatures (src/enhanced_features.py) and    *)
(* TenorAPI (src/tenor_api.py).                                            *)
(*                                                                         *)
(* Spec          the challenges: start_challenge, end_challenge,           *)
(*               cancel_challenge, submit_gif, is_admin, save_data         *)
(* SpecRestart   the same after a start that loaded an earlier snapshot    *)
(* SpecLive      the same with no failing transport call, with fairness    *)
(* SpecTwoChats  the challenges in two chats and a pending scheduled post  *)
(* SpecSchedule  the scheduled posts of GIFBot and of EnhancedFeatures     *)
(* SpecSettings  toggle_passive, set_max_gifs, toggle_safe_mode            *)
(* SpecTenor     TenorAPI.search_gif                                       *)
(*                                                                         *)
(* Update handlers run one at a time (the Application is built without     *)
(* concurrent_updates), job callbacks of the job queue run as their own    *)
(* tasks, so a job callback interleaves with the current handler and with  *)
(* other job callbacks at every await.  One action is one stretch of code  *)
(* between two awaits; awaits with no access to self.challenges or to the  *)
(* job queue between them are one suspension.                              *)
(***************************************************************************)
EXTENDS Integers, FiniteSets, Sequences, TLC

\* ------------------------------------------------------------------ bounds
MaxStarts == 2          \* start_challenge invocations that create a record

\* ------------------------------------------------------ program constants
MinDuration == 30
MaxDuration == 24 * 3600
DefaultDuration == 300

\* ------------------------------------------------------------ Python values
\* int and str values are kept apart: 5 == "5" is False in Python.
PyInt(n) == [ty |-> "int", v |-> n]
PyStr(x) == [ty |-> "str", v |-> x.v]
PyIntOf(s) == [ty |-> "int", v |-> s.v]
PyDatetime(n) == [ty |-> "datetime", v |-> n]

Max(a, b) == IF a >= b THEN a ELSE b
Min(a, b) == IF a <= b THEN a ELSE b

\* dict operations
EmptyDict == << >>
DictSet(d, k, val) == [x \in (DOMAIN d) \cup {k} |-> IF x = k THEN val ELSE d[x]]
DictDel(d, k) == [x \in (DOMAIN d) \ {k} |-> d[x]]

\* ------------------------------------------------------------------ inputs
GroupChat == 0 - 1
Chats == {GroupChat}
Users == {1, 2}
ChatType(c) == IF c > 0 THEN "private" ELSE "group"
\* a private chat has the id of its only user
UsersOf(c) == IF ChatType(c) = "private" THEN {c} ELSE Users
Themes == {"Summer"}
Anims == {"A1", "A2"}
NoAnim == "none"
\* one animation, where which animation is submitted plays no part
OneAnim == {"A1"}
\* the second command argument, a digit string
DigitArg(n) == [digit |-> TRUE, v |-> n]
DurationArgs == {DigitArg(10), DigitArg(100000)}
\* context.args of /challenge
ChallengeArgs == {<<t, d>> : t \in Themes, d \in DurationArgs}
MemberStatus == {"administrator", "creator", "member"}

VARIABLES now, challenges, jobs, running, h, file, ev, nstarts,
          user_stats, scheduled_tasks, tasks, nposts,
          group_settings, tenor

vars == <<now, challenges, jobs, running, h, file, ev, nstarts,
          user_stats, scheduled_tasks, tasks, nposts,
          group_settings, tenor>>

\* the state of the challenges and the state of the scheduled posts
challengeVars == <<challenges, nstarts>>
scheduleVars == <<user_stats, scheduled_tasks, tasks, nposts>>
\* the chat settings and the TenorAPI client
settingsVars == <<group_settings, tenor>>

\* ------------------------------------------------------------- persistence
FileAbsent == [state |-> "absent"]
FilePartial == [state |-> "partial"]
FileOk(stats, chs) == [state |-> "ok", user_stats |-> stats, challenges |-> chs]
\* json.dump raises TypeError on a datetime, after open(.., 'w') truncated
\* the file and the encoder wrote the chunks before the datetime
JsonSerializable(chs) == \A k \in DOMAIN chs : chs[k].end_time.ty # "datetime"
save_data(stats, chs) == IF JsonSerializable(chs) THEN FileOk(stats, chs) ELSE FilePartial

\* what json.dump(data, f, indent=2) raises (line 155)
JsonDumpRaises(chs) == IF JsonSerializable(chs) THEN "none" ELSE "TypeError"
\* the classes that `except Exception` catches
IsException(e) ==
    e \in {"TypeError", "ValueError", "OSError", "NameError", "KeyError", "TransportError"}

\* a save_data without the try of line 145: the TypeError reaches the caller
save_data_error_Propagates(chs) == JsonDumpRaises(chs)

\* the exception that leaves save_data: `except Exception` (lines 156-157)
\* logs whatever was raised inside the try
save_data_error(chs) ==
    IF IsException(JsonDumpRaises(chs)) THEN "none" ELSE JsonDumpRaises(chs)

\* what __init__ leaves in the maps (lines 53, 63)
Defaults == [user_stats |-> EmptyDict, challenges |-> EmptyDict]

\* load_data: no file, nothing read (line 128); json.load of a partial file
\* raises and is logged (lines 140-141); otherwise the maps of a complete
\* file, which json returns as they were written (str keys, int and str values)
load_data(f) ==
    IF f.state = "ok" THEN [user_stats |-> f.user_stats, challenges |-> f.challenges]
    ELSE Defaults

\* ------------------------------------------------------------------ events
\* ev is what the last step of a handler or callback did towards the
\* outside: the chat, who asked, the transport calls issued, the exception that left
\* the coroutine, and the value a write replaced.
None == [ty |-> "None"]
Event(act, chat, who, sent, error, prev) ==
    [act |-> act, chat |-> chat, who |-> who, sent |-> sent, error |-> error, prev |-> prev]
\* the requester of an update, and what get_chat_member said of them
Requester(user, status) == [user |-> user, status |-> status]
Submitter(user, file_id) == [user |-> user, animation |-> file_id]
\* the dict object a callback took at line 973 and announces
Resolved(r) == [gen |-> r.gen]

\* the record a write to self.challenges replaced or removed
Replaced(challenge) ==
    [gen |-> challenge.gen, participants |-> Cardinality(DOMAIN challenge.participants)]

Idle == [pc |-> "idle"]
\* the TenorAPI client when no search is modelled
NoClient == [pc |-> "unused"]

Init ==
    /\ now = 0
    /\ challenges = EmptyDict
    /\ jobs = {}
    /\ running = {}
    /\ h = Idle
    /\ file = FileAbsent
    /\ ev = Event("init", None, None, <<>>, "none", None)
    /\ nstarts = 0
    /\ user_stats = EmptyDict
    /\ scheduled_tasks = EmptyDict
    /\ tasks = {}
    /\ nposts = 0
    /\ group_settings = EmptyDict
    /\ tenor = NoClient

\* ------------------------------------------------------------------- clock
\* Time passes up to the instant at which the next pending job is due; the
\* instants in between differ from it in nothing the program reads.  The job
\* queue runs a job at its due time: time does not pass a job that is due.
Tick(t) ==
    /\ t > now
    /\ \E j \in jobs : j.due = t
    /\ \A j \in jobs : j.due >= t
    /\ now' = t
    /\ UNCHANGED <<challenges, jobs, running, h, file, ev, nstarts>>
    /\ UNCHANGED scheduleVars
    /\ UNCHANGED settingsVars

\* -------------------------------------------------------- start_challenge
\* seconds as computed by lines 924-930
ClampSeconds(args) ==
    IF Len(args) >= 2 /\ args[2].digit
    THEN Max(MinDuration, Min(args[2].v, MaxDuration))
    ELSE DefaultDuration

\* lines 944-945: hours, remainder = divmod(seconds, 3600);
\* minutes, seconds = divmod(remainder, 60) rebinds `seconds`
SecondsAfterTimeStr(seconds) == (seconds % 3600) % 60

\* the dict literal of lines 935-940; gen is the identity of the dict object
NewChallenge(theme, creator, end_time, gen) ==
    [theme |-> theme, creator |-> creator, participants |-> EmptyDict,
     end_time |-> end_time, gen |-> gen]

\* a start that keeps the submissions of the challenge it replaces
StoreChallenge_Merge(chs, chat_id, rec) ==
    DictSet(chs, chat_id,
            IF chat_id \in DOMAIN chs
            THEN [rec EXCEPT !.participants = chs[chat_id].participants]
            ELSE rec)

\* self.challenges[str(chat_id)] = {...}
StoreChallenge(chs, chat_id, rec) == DictSet(chs, chat_id, rec)

\* context.job_queue.run_once(self.end_challenge, seconds, chat_id=.., data=..)
Job(id, chat_id, when, armed_at) ==
    [id |-> id, chat_id |-> chat_id, data |-> [chat_id |-> chat_id],
     when |-> when, due |-> armed_at + when]

\* A handler first awaits react_to_command (line 916), which reads and writes
\* nothing and swallows its own errors: the update is taken to arrive when
\* that await returns.  The early returns of a handler that only reply are
\* its guard.
start_challenge(c, u, args) ==
    /\ h = Idle
    /\ Len(args) > 0
    /\ nstarts < MaxStarts
    /\ LET seconds == ClampSeconds(args)
           chat_id == PyStr(PyInt(c))
           rec == NewChallenge(args[1], PyInt(u), PyDatetime(now + seconds), nstarts + 1)
           prev == IF chat_id \in DOMAIN challenges THEN Replaced(challenges[chat_id]) ELSE None
       IN /\ challenges' = StoreChallenge(challenges, chat_id, rec)
          /\ file' = save_data(user_stats, challenges')
          /\ nstarts' = nstarts + 1
          /\ LET err == save_data_error(challenges')
             IN /\ h' = IF err # "none" THEN Idle
                        ELSE [pc |-> "sc_reply", chat |-> PyInt(c), user |-> PyInt(u), theme |-> args[1],
                              duration |-> seconds, seconds |-> SecondsAfterTimeStr(seconds),
                              end_time |-> rec.end_time, gen |-> rec.gen]
                /\ ev' = Event("start_challenge", PyInt(c), None,
                               IF err # "none" THEN <<>> ELSE <<"new_challenge">>, err, prev)
    /\ UNCHANGED <<now, jobs, running>>
    /\ UNCHANGED scheduleVars
    /\ UNCHANGED settingsVars

\* a start_challenge that ends after its reply, without run_once
start_challenge_arm_NoJob ==
    /\ h.pc = "sc_reply"
    /\ h' = Idle
    /\ ev' = Event("start_challenge_arm", h.chat, None, <<>>, "none", None)
    /\ UNCHANGED <<now, challenges, jobs, running, file, nstarts>>
    /\ UNCHANGED scheduleVars
    /\ UNCHANGED settingsVars

\* the reply of line 948 returned: lines 955-963 arm the job
start_challenge_arm ==
    /\ h.pc = "sc_reply"
    /\ jobs' = jobs \cup {Job(h.gen, h.chat, h.seconds, now)}
    /\ h' = Idle
    /\ ev' = Event("start_challenge_arm", h.chat, None, <<>>, "none", None)
    /\ UNCHANGED <<now, challenges, running, file, nstarts>>
    /\ UNCHANGED scheduleVars
    /\ UNCHANGED settingsVars

\* the reply of line 948 raised: the handler ends before line 958
start_challenge_reply_failed ==
    /\ h.pc = "sc_reply"
    /\ h' = Idle
    /\ ev' = Event("start_challenge_reply_failed", h.chat, None, <<>>, "TransportError", None)
    /\ UNCHANGED <<now, challenges, jobs, running, file, nstarts>>
    /\ UNCHANGED scheduleVars
    /\ UNCHANGED settingsVars

\* ------------------------------------------------------------- submit_gif
\* a submission that does not replace the one the user already made
RecordSubmission_KeepFirst(participants, uid, file_id) ==
    IF uid \in DOMAIN participants THEN participants ELSE DictSet(participants, uid, file_id)

\* challenge["participants"][str(user_id)] = file_id   (line 1054)
RecordSubmission(participants, uid, file_id) == DictSet(participants, uid, file_id)

\* a submit_gif that opens a challenge when the chat has none
submit_gif_no_challenge_Creates(c, u) ==
    /\ h = Idle
    /\ PyStr(PyInt(c)) \notin DOMAIN challenges
    /\ challenges' = StoreChallenge(challenges, PyStr(PyInt(c)),
                                    NewChallenge("none", PyInt(u), PyInt(now), 0))
    /\ ev' = Event("submit_gif_no_challenge", PyInt(c), None, <<"no_active">>, "none", None)
    /\ UNCHANGED <<now, jobs, running, h, file, nstarts>>
    /\ UNCHANGED scheduleVars
    /\ UNCHANGED settingsVars

submit_gif_no_challenge(c, u) ==
    /\ h = Idle
    /\ PyStr(PyInt(c)) \notin DOMAIN challenges
    /\ ev' = Event("submit_gif_no_challenge", PyInt(c), None, <<"no_active">>, "none", None)
    /\ UNCHANGED <<now, challenges, jobs, running, h, file, nstarts>>
    /\ UNCHANGED scheduleVars
    /\ UNCHANGED settingsVars

\* a submit_gif without the check of line 1042: line 1050 raises KeyError
submit_gif_Unchecked(c, u, file_id) ==
    /\ h = Idle
    /\ LET chat_id == PyStr(PyInt(c))
           uid == PyStr(PyInt(u))
       IN IF chat_id \in DOMAIN challenges
          THEN /\ challenges' = [challenges EXCEPT ![chat_id].participants =
                                     RecordSubmission(challenges[chat_id].participants, uid, file_id)]
               /\ file' = save_data(user_stats, challenges')
               /\ ev' = Event("submit_gif", PyInt(c), Submitter(PyInt(u), file_id),
                              <<"received">>, "none", NoAnim)
          ELSE /\ ev' = Event("submit_gif", PyInt(c), Submitter(PyInt(u), file_id),
                              <<>>, "KeyError", NoAnim)
               /\ UNCHANGED <<challenges, file>>
    /\ UNCHANGED <<now, jobs, running, h, nstarts>>
    /\ UNCHANGED scheduleVars
    /\ UNCHANGED settingsVars

\* lines 1050-1057: the record is there, the submission is written and saved
\* before the next await
submit_gif(c, u, file_id) ==
    /\ h = Idle
    /\ PyStr(PyInt(c)) \in DOMAIN challenges
    /\ LET chat_id == PyStr(PyInt(c))
           challenge == challenges[chat_id]
           uid == PyStr(PyInt(u))
           prev == IF uid \in DOMAIN challenge.participants
                   THEN challenge.participants[uid] ELSE NoAnim
       IN /\ challenges' = [challenges EXCEPT ![chat_id].participants =
                                RecordSubmission(challenge.participants, uid, file_id)]
          /\ file' = save_data(user_stats, challenges')
          /\ LET err == save_data_error(challenges')
             IN ev' = Event("submit_gif", PyInt(c), Submitter(PyInt(u), file_id),
                            IF err # "none" THEN <<>> ELSE <<"received">>, err, prev)
    /\ UNCHANGED <<now, jobs, running, h, nstarts>>
    /\ UNCHANGED scheduleVars
    /\ UNCHANGED settingsVars

\* -------------------------------------------------------- cancel_challenge
\* an admin check that accepts every member of the chat
IsAdminStatus_AnyMember(status) == status \in {"administrator", "creator", "member"}

\* member.status in ['administrator', 'creator']   (line 846)
IsAdminStatus(status) == status \in {"administrator", "creator"}

\* a cancel that takes every job of the queue for a job of its chat
JobMatches_AnyJob(job, chat_id) == TRUE

\* job.data and job.data.get("chat_id") == chat_id   (line 1029); the data of
\* a scheduled-post job has no "chat_id" and .get returns None
JobMatches(job, chat_id) == "chat_id" \in DOMAIN job.data /\ job.data.chat_id = chat_id

\* lines 1028-1030: schedule_removal of every matching job
RemoveJobs(js, chat_id) == {j \in js : ~JobMatches(j, chat_id)}

cancel_challenge_no_challenge(c, u) ==
    /\ h = Idle
    /\ PyStr(PyInt(c)) \notin DOMAIN challenges
    /\ ev' = Event("cancel_challenge_no_challenge", PyInt(c), None, <<"no_active">>, "none", None)
    /\ UNCHANGED <<now, challenges, jobs, running, h, file, nstarts>>
    /\ UNCHANGED scheduleVars
    /\ UNCHANGED settingsVars

\* lines 1027-1034, reached without an await when the requester is the
\* creator, or when is_admin returns True at once in a private chat
cancel_challenge_direct(c, u) ==
    /\ h = Idle
    /\ PyStr(PyInt(c)) \in DOMAIN challenges
    /\ LET chat_id == PyStr(PyInt(c))
       IN /\ PyInt(u) = challenges[chat_id].creator \/ ChatType(c) = "private"
          /\ jobs' = RemoveJobs(jobs, chat_id)
          /\ challenges' = DictDel(challenges, chat_id)
          /\ file' = save_data(user_stats, challenges')
          /\ LET err == save_data_error(challenges')
             IN ev' = Event("cancel_challenge", PyInt(c), Requester(PyInt(u), "unasked"),
                            IF err # "none" THEN <<>> ELSE <<"canceled">>, err, Replaced(challenges[chat_id]))
    /\ UNCHANGED <<now, running, h, nstarts>>
    /\ UNCHANGED scheduleVars
    /\ UNCHANGED settingsVars

\* is_admin awaits get_chat_member (line 845)
cancel_challenge_ask_admin(c, u) ==
    /\ h = Idle
    /\ PyStr(PyInt(c)) \in DOMAIN challenges
    /\ PyInt(u) # challenges[PyStr(PyInt(c))].creator
    /\ ChatType(c) # "private"
    /\ h' = [pc |-> "cc_admin", chat |-> PyInt(c), user |-> PyInt(u)]
    /\ ev' = Event("cancel_challenge_ask_admin", PyInt(c), None, <<>>, "none", None)
    /\ UNCHANGED <<now, challenges, jobs, running, file, nstarts>>
    /\ UNCHANGED scheduleVars
    /\ UNCHANGED settingsVars

\* get_chat_member returned an administrator: lines 1027-1034
cancel_challenge_as_admin(status) ==
    /\ h.pc = "cc_admin"
    /\ IsAdminStatus(status)
    /\ LET chat_id == PyStr(h.chat)
       IN /\ jobs' = RemoveJobs(jobs, chat_id)
          /\ IF chat_id \in DOMAIN challenges
             THEN /\ challenges' = DictDel(challenges, chat_id)
                  /\ file' = save_data(user_stats, challenges')
                  /\ LET err == save_data_error(challenges')
                     IN ev' = Event("cancel_challenge", h.chat, Requester(h.user, status),
                                    IF err # "none" THEN <<>> ELSE <<"canceled">>, err, Replaced(challenges[chat_id]))
             ELSE \* del self.challenges[chat_id] raises KeyError
                  /\ ev' = Event("cancel_challenge", h.chat, Requester(h.user, status), <<>>, "KeyError", None)
                  /\ UNCHANGED <<challenges, file>>
    /\ h' = Idle
    /\ UNCHANGED <<now, running, nstarts>>
    /\ UNCHANGED scheduleVars
    /\ UNCHANGED settingsVars

\* get_chat_member returned a plain member: is_admin replies (line 849) and
\* returns False, cancel_challenge replies (line 1024)
cancel_challenge_not_admin(status) ==
    /\ h.pc = "cc_admin"
    /\ ~IsAdminStatus(status)
    /\ h' = Idle
    /\ ev' = Event("cancel_challenge_forbidden", h.chat, Requester(h.user, status), <<"admins_only", "forbidden">>, "none", None)
    /\ UNCHANGED <<now, challenges, jobs, running, file, nstarts>>
    /\ UNCHANGED scheduleVars
    /\ UNCHANGED settingsVars

\* get_chat_member raised: is_admin returns False (lines 852-854), line 1024
cancel_challenge_lookup_failed ==
    /\ h.pc = "cc_admin"
    /\ h' = Idle
    /\ ev' = Event("cancel_challenge_forbidden", h.chat, Requester(h.user, "failed"), <<"forbidden">>, "none", None)
    /\ UNCHANGED <<now, challenges, jobs, running, file, nstarts>>
    /\ UNCHANGED scheduleVars
    /\ UNCHANGED settingsVars

\* ---------------------------------------------------------- end_challenge
\* an entry without the check of line 970: line 973 raises KeyError
EndChallengeEntry_NoCheck(chs, chat_id) ==
    IF chat_id \notin DOMAIN chs THEN "KeyError"
    ELSE IF DOMAIN chs[chat_id].participants = {} THEN "no_submissions"
    ELSE "pick"

\* lines 970-975: what the callback finds on entry
EndChallengeEntry(chs, chat_id) ==
    IF chat_id \notin DOMAIN chs THEN "return"
    ELSE IF DOMAIN chs[chat_id].participants = {} THEN "no_submissions"
    ELSE "pick"

\* a running callback: its job, the dict object `challenge` refers to (gen),
\* and the locals it keeps across its awaits
Callback(j, pc, gen, winner_id, winner_gif) ==
    [id |-> j.id, chat_id |-> PyStr(j.chat_id), pc |-> pc, gen |-> gen,
     winner_id |-> winner_id, winner_gif |-> winner_gif]

Due(j) == j.due <= now

\* no record for the chat: line 971
end_challenge_return(j) ==
    /\ j \in jobs /\ Due(j)
    /\ EndChallengeEntry(challenges, PyStr(j.chat_id)) \notin {"no_submissions", "pick"}
    /\ jobs' = jobs \ {j}
    /\ ev' = Event("end_challenge_return", j.chat_id, None, <<>>,
                   IF EndChallengeEntry(challenges, PyStr(j.chat_id)) = "return"
                   THEN "none" ELSE "KeyError", None)
    /\ UNCHANGED <<now, challenges, running, h, file, nstarts>>
    /\ UNCHANGED scheduleVars
    /\ UNCHANGED settingsVars

\* no participants: send_message of line 976 is awaited
end_challenge_no_submissions(j) ==
    /\ j \in jobs /\ Due(j)
    /\ EndChallengeEntry(challenges, PyStr(j.chat_id)) = "no_submissions"
    /\ jobs' = jobs \ {j}
    /\ running' = running \cup
           {Callback(j, "ec_nosub", challenges[PyStr(j.chat_id)].gen, None, NoAnim)}
    /\ ev' = Event("end_challenge_no_submissions", j.chat_id, None, <<>>, "none", None)
    /\ UNCHANGED <<now, challenges, h, file, nstarts>>
    /\ UNCHANGED scheduleVars
    /\ UNCHANGED settingsVars

\* random.choice over the participants (lines 985-986); get_chat_member,
\* send_message and send_animation are then awaited in turn
end_challenge_pick(j, winner_id) ==
    /\ j \in jobs /\ Due(j)
    /\ EndChallengeEntry(challenges, PyStr(j.chat_id)) = "pick"
    /\ LET challenge == challenges[PyStr(j.chat_id)]
       IN /\ winner_id \in DOMAIN challenge.participants
          /\ running' = running \cup
                 {Callback(j, "ec_winner", challenge.gen, winner_id, challenge.participants[winner_id])}
    /\ jobs' = jobs \ {j}
    /\ ev' = Event("end_challenge_pick", j.chat_id, None, <<>>, "none", None)
    /\ UNCHANGED <<now, challenges, h, file, nstarts>>
    /\ UNCHANGED scheduleVars
    /\ UNCHANGED settingsVars

\* what a callback has sent when its last send returned
Announcements(r) ==
    IF r.pc = "ec_nosub" THEN <<[kind |-> "no_submissions"]>>
    ELSE <<[kind |-> "winner", winner |-> r.winner_id],
           [kind |-> "animation", animation |-> r.winner_gif]>>

\* the sends returned: del self.challenges[chat_id]; self.save_data()
end_challenge_cleanup(r) ==
    /\ r \in running
    /\ r.pc \in {"ec_nosub", "ec_winner"}
    /\ running' = running \ {r}
    /\ IF r.chat_id \in DOMAIN challenges
       THEN /\ challenges' = DictDel(challenges, r.chat_id)
            /\ file' = save_data(user_stats, challenges')
            /\ ev' = Event("end_challenge", PyIntOf(r.chat_id), Resolved(r), Announcements(r),
                           save_data_error(challenges'), Replaced(challenges[r.chat_id]))
       ELSE /\ ev' = Event("end_challenge", PyIntOf(r.chat_id), Resolved(r), Announcements(r), "KeyError", None)
            /\ UNCHANGED <<challenges, file>>
    /\ UNCHANGED <<now, jobs, h, nstarts>>
    /\ UNCHANGED scheduleVars
    /\ UNCHANGED settingsVars

\* send_message (line 976 or 994) raised: nothing in end_challenge catches it
end_challenge_send_failed(r) ==
    /\ r \in running
    /\ r.pc \in {"ec_nosub", "ec_winner"}
    /\ running' = running \ {r}
    /\ ev' = Event("end_challenge", PyIntOf(r.chat_id), Resolved(r), <<>>, "TransportError", None)
    /\ UNCHANGED <<now, challenges, jobs, h, file, nstarts>>
    /\ UNCHANGED scheduleVars
    /\ UNCHANGED settingsVars

Next ==
    \/ \E j \in jobs : Tick(j.due)
    \/ \E c \in Chats, args \in ChallengeArgs : \E u \in UsersOf(c) : start_challenge(c, u, args)
    \/ start_challenge_arm
    \/ start_challenge_reply_failed
    \/ \E c \in Chats : \E u \in UsersOf(c) : submit_gif_no_challenge(c, u)
    \/ \E c \in Chats, a \in Anims : \E u \in UsersOf(c) : submit_gif(c, u, a)
    \/ \E c \in Chats : \E u \in UsersOf(c) : cancel_challenge_no_challenge(c, u)
    \/ \E c \in Chats : \E u \in UsersOf(c) : cancel_challenge_direct(c, u)
    \/ \E c \in Chats : \E u \in UsersOf(c) : cancel_challenge_ask_admin(c, u)
    \/ \E st \in MemberStatus : cancel_challenge_as_admin(st)
    \/ \E st \in MemberStatus : cancel_challenge_not_admin(st)
    \/ cancel_challenge_lookup_failed
    \/ \E j \in jobs : end_challenge_return(j)
    \/ \E j \in jobs : end_challenge_no_submissions(j)
    \/ \E j \in jobs, u \in Users : end_challenge_pick(j, PyStr(PyInt(u)))
    \/ \E r \in running : end_challenge_cleanup(r)
    \/ \E r \in running : end_challenge_send_failed(r)

Spec == Init /\ [][Next]_vars

\* ================================================== scheduled posts
\* bounds
MaxPosts == 2           \* accepted /schedule invocations

DaySeconds == 86400     \* timedelta(days=1)
HourSeconds == 3600
MinuteSeconds == 60

\* A time string is the sequence of its characters.
Digits == <<"0", "1", "2", "3", "4", "5", "6", "7", "8", "9">>
IsDigit(ch) == \E i \in 1..10 : Digits[i] = ch
DigitVal(ch) == (CHOOSE i \in 1..10 : Digits[i] = ch) - 1
\* a character class [lo-hi] of the regular expression
InClass(ch, lo, hi) == IsDigit(ch) /\ DigitVal(ch) >= lo /\ DigitVal(ch) <= hi
AllDigits(s) == \A i \in 1..Len(s) : IsDigit(s[i])

RECURSIVE DecimalValue(_)
DecimalValue(s) ==
    IF s = << >> THEN 0
    ELSE DecimalValue(SubSeq(s, 1, Len(s) - 1)) * 10 + DigitVal(s[Len(s)])

\* context.args[0] of /schedule
TimeStrings ==
    { <<"0", "9", ":", "0", "0">>, <<"9", ":", "0", "5">>,
      <<"2", "5", ":", "0", "0">>, <<"9", ":", "5">>, <<"a", "b", "c">> }
Queries == {"rain"}
\* datetime.now() when the process starts, in seconds since midnight
StartTimes == {8 * 3600, 9 * 3600, 10 * 3600}
\* what TenorAPI.search_gif returns when the post fires
SearchResults == {<< >>, <<"G1">>}

\* a time pattern without the limits on the hour and the minute
TimeRegexMatches_AnyDigits(s) ==
    \/ Len(s) = 4 /\ IsDigit(s[1]) /\ s[2] = ":" /\ IsDigit(s[3]) /\ IsDigit(s[4])
    \/ Len(s) = 5 /\ IsDigit(s[1]) /\ IsDigit(s[2]) /\ s[3] = ":" /\ IsDigit(s[4]) /\ IsDigit(s[5])

\* re.match(r"^([0-1]?[0-9]|2[0-3]):[0-5][0-9]$", time_str)   (bot.py:1076)
TimeRegexMatches(s) ==
    \/ /\ Len(s) = 4
       /\ IsDigit(s[1])
       /\ s[2] = ":" /\ InClass(s[3], 0, 5) /\ IsDigit(s[4])
    \/ /\ Len(s) = 5
       /\ \/ InClass(s[1], 0, 1) /\ IsDigit(s[2])
          \/ s[1] = "2" /\ InClass(s[2], 0, 3)
       /\ s[3] = ":" /\ InClass(s[4], 0, 5) /\ IsDigit(s[5])

ColonAt(s) == CHOOSE i \in 1..Len(s) : s[i] = ":"

\* datetime.strptime(time_str, "%H:%M") of a string the pattern accepted
Strptime(s) ==
    [hour |-> DecimalValue(SubSeq(s, 1, ColonAt(s) - 1)),
     minute |-> DecimalValue(SubSeq(s, ColonAt(s) + 1, Len(s)))]

\* .replace(year=now.year, month=now.month, day=now.day): that time of day on
\* the day of `t`
TodayAt(t, hour, minute) ==
    (t \div DaySeconds) * DaySeconds + hour * HourSeconds + minute * MinuteSeconds

\* a comparison that never moves the post to the next day
PassedToday_Never(scheduled_time, t) == FALSE

\* scheduled_time < now   (bot.py:1090)
PassedToday(scheduled_time, t) == scheduled_time < t

\* lines 1084-1093
ScheduledTime(time_str, t) ==
    LET tm == Strptime(time_str)
        scheduled_time == TodayAt(t, tm.hour, tm.minute)
    IN IF PassedToday(scheduled_time, t) THEN scheduled_time + DaySeconds ELSE scheduled_time

\* who asked for a post, and with which time string
PostRequest(user, time_str) == [user |-> user, time_str |-> time_str]
\* what schedule computed
Computed(fire_at, delay) == [fire_at |-> fire_at, delay |-> delay]

\* job_queue.run_once(callback=self.send_scheduled_gif, when=delay, ...)
PostJob(id, chat_id, query, user_id, delay, armed_at) ==
    [id |-> id, chat_id |-> chat_id, data |-> [query |-> query, user_id |-> user_id],
     when |-> delay, due |-> armed_at + delay]

\* -------------------------------------------------- GIFBot.schedule_gif
\* line 1076-1078: the pattern does not match
schedule_gif_invalid(c, u, time_str, query) ==
    /\ h = Idle
    /\ ~TimeRegexMatches(time_str)
    /\ ev' = Event("schedule_gif_invalid", PyInt(c), PostRequest(PyInt(u), time_str),
                   <<"invalid_time">>, "none", None)
    /\ UNCHANGED <<now, jobs, running, h, file>>
    /\ UNCHANGED challengeVars
    /\ UNCHANGED settingsVars
    /\ UNCHANGED scheduleVars

\* lines 1080-1106
schedule_gif(c, u, time_str, query) ==
    /\ h = Idle
    /\ nposts < MaxPosts
    /\ TimeRegexMatches(time_str)
    /\ LET scheduled_time == ScheduledTime(time_str, now)
           delay == scheduled_time - now
       IN /\ jobs' = jobs \cup {PostJob(nposts + 1, PyInt(c), query, PyInt(u), delay, now)}
          /\ ev' = Event("schedule_gif", PyInt(c), PostRequest(PyInt(u), time_str),
                         <<"scheduled">>, "none", Computed(scheduled_time, delay))
    /\ nposts' = nposts + 1
    /\ UNCHANGED <<now, running, h, file, user_stats, scheduled_tasks, tasks>>
    /\ UNCHANGED challengeVars
    /\ UNCHANGED settingsVars

\* ------------------------------------------- GIFBot.send_scheduled_gif
DictGet(d, k, default) == IF k \in DOMAIN d THEN d[k] ELSE default

\* a credit of two uses for one post
CreditUser_Twice(stats, uid) == DictSet(stats, uid, DictGet(stats, uid, 0) + 2)

\* self.user_stats[str(job.data["user_id"])] += 1 on a defaultdict(int)
CreditUser(stats, uid) == DictSet(stats, uid, DictGet(stats, uid, 0) + 1)

\* the callback of a post job, suspended in search_gif and then in its send
PostCallback(j) ==
    [pc |-> "sg_search", id |-> j.id, chat_id |-> j.chat_id,
     query |-> j.data.query, user_id |-> j.data.user_id]

\* the outcome of a fired post
Outcome(results, send) == [results |-> results, send |-> send]

\* the job is due: lines 1113-1119, up to the await of search_gif
send_scheduled_gif_fire(j) ==
    /\ j \in jobs /\ Due(j)
    /\ jobs' = jobs \ {j}
    /\ running' = running \cup {PostCallback(j)}
    /\ ev' = Event("send_scheduled_gif_fire", j.chat_id, PostRequest(j.data.user_id, << >>),
                   << >>, "none", None)
    /\ UNCHANGED <<now, h, file>>
    /\ UNCHANGED challengeVars
    /\ UNCHANGED settingsVars
    /\ UNCHANGED scheduleVars

\* search_gif returned a result and send_animation returned: lines 1127-1129
send_scheduled_gif_sent(r, gifs) ==
    /\ r \in running
    /\ r.pc = "sg_search"
    /\ gifs # << >>
    /\ running' = running \ {r}
    /\ user_stats' = CreditUser(user_stats, PyStr(r.user_id))
    /\ file' = save_data(user_stats', challenges)
    /\ ev' = Event("send_scheduled_gif", r.chat_id, PostRequest(r.user_id, << >>),
                   <<[kind |-> "animation", animation |-> gifs[1]]>>,
                   save_data_error(challenges), Outcome(Len(gifs), "sent"))
    /\ UNCHANGED <<now, jobs, h, scheduled_tasks, tasks, nposts>>
    /\ UNCHANGED challengeVars
    /\ UNCHANGED settingsVars

\* search_gif returned nothing and send_message returned: lines 1130-1134
send_scheduled_gif_no_results(r) ==
    /\ r \in running
    /\ r.pc = "sg_search"
    /\ running' = running \ {r}
    /\ ev' = Event("send_scheduled_gif", r.chat_id, PostRequest(r.user_id, << >>),
                   <<[kind |-> "no_results"]>>, "none", Outcome(0, "sent"))
    /\ UNCHANGED <<now, jobs, h, file>>
    /\ UNCHANGED challengeVars
    /\ UNCHANGED settingsVars
    /\ UNCHANGED scheduleVars

\* send_animation or send_message raised: logged at lines 1135-1136
send_scheduled_gif_send_failed(r, gifs) ==
    /\ r \in running
    /\ r.pc = "sg_search"
    /\ running' = running \ {r}
    /\ ev' = Event("send_scheduled_gif", r.chat_id, PostRequest(r.user_id, << >>),
                   << >>, IF IsException("TransportError") THEN "none" ELSE "TransportError",
                   Outcome(Len(gifs), "failed"))
    /\ UNCHANGED <<now, jobs, h, file>>
    /\ UNCHANGED challengeVars
    /\ UNCHANGED settingsVars
    /\ UNCHANGED scheduleVars

\* ------------------------------------ EnhancedFeatures.schedule_gif
\* time_str.split(':')
RECURSIVE Split(_)
Split(s) ==
    IF \A i \in 1..Len(s) : s[i] # ":" THEN <<s>>
    ELSE <<SubSeq(s, 1, ColonAt(s) - 1)>> \o Split(SubSeq(s, ColonAt(s) + 1, Len(s)))

\* int(part): an optional sign and at least one digit (the inputs hold no
\* blanks and no underscores); anything else raises ValueError
IntParses(part) ==
    \/ part # << >> /\ AllDigits(part)
    \/ Len(part) >= 2 /\ part[1] \in {"+", "-"} /\ AllDigits(Tail(part))
IntValue(part) ==
    IF part[1] = "-" THEN 0 - DecimalValue(Tail(part))
    ELSE IF part[1] = "+" THEN DecimalValue(Tail(part))
    ELSE DecimalValue(part)

\* lines 182-184: hour, minute = map(int, time_str.split(':')) and the range
\* check; "ValueError" stands for the three ways it is raised
ParseTime(s) ==
    LET parts == Split(s)
    IN IF Len(parts) # 2 \/ ~IntParses(parts[1]) \/ ~IntParses(parts[2])
       THEN [error |-> "ValueError"]
       ELSE LET hour == IntValue(parts[1])
                minute == IntValue(parts[2])
            IN IF ~(0 <= hour /\ hour <= 23 /\ 0 <= minute /\ minute <= 59)
               THEN [error |-> "ValueError"]
               ELSE [error |-> "none", hour |-> hour, minute |-> minute]

\* lines 187-191: target_time <= now moves the post to the next day
TargetTime(tm, t) ==
    LET target_time == TodayAt(t, tm.hour, tm.minute)
    IN IF target_time <= t THEN target_time + DaySeconds ELSE target_time

\* an id made of the chat alone
TaskId_ChatOnly(chat_id, n) == <<chat_id, 0>>

\* f"{update.effective_chat.id}_{len(self.bot.scheduled_tasks)}"   (line 194)
TaskId(chat_id, n) == <<chat_id, n>>

\* the dict literal of lines 195-200; 'time' is the isoformat of target_time
Task(chat_id, query, target_time, user_id) ==
    [chat_id |-> chat_id, query |-> query, time |-> target_time, user_id |-> user_id]

\* asyncio.create_task(self._send_scheduled_gif(task_id, delay)), asleep
Sleeper(task_id, delay, started_at) ==
    [task_id |-> task_id, delay |-> delay, due |-> started_at + delay]

\* lines 216-221: ValueError is answered with the invalid-format reply
enhanced_schedule_gif_invalid(c, u, time_str, query) ==
    /\ h = Idle
    /\ ParseTime(time_str).error # "none"
    /\ ev' = Event("enhanced_schedule_gif_invalid", PyInt(c), PostRequest(PyInt(u), time_str),
                   <<"invalid_time">>, "none", None)
    /\ UNCHANGED <<now, jobs, running, h, file>>
    /\ UNCHANGED challengeVars
    /\ UNCHANGED settingsVars
    /\ UNCHANGED scheduleVars

\* lines 186-214
enhanced_schedule_gif(c, u, time_str, query) ==
    /\ h = Idle
    /\ nposts < MaxPosts
    /\ ParseTime(time_str).error = "none"
    /\ LET target_time == TargetTime(ParseTime(time_str), now)
           task_id == TaskId(PyInt(c), Cardinality(DOMAIN scheduled_tasks))
           delay == target_time - now
       IN /\ scheduled_tasks' = DictSet(scheduled_tasks, task_id,
                                        Task(PyInt(c), query, target_time, PyInt(u)))
          /\ file' = save_data(user_stats, challenges)
          /\ tasks' = tasks \cup {Sleeper(task_id, delay, now)}
          /\ ev' = Event("enhanced_schedule_gif", PyInt(c), PostRequest(PyInt(u), time_str),
                         <<"scheduled">>, save_data_error(challenges), Computed(target_time, delay))
    /\ nposts' = nposts + 1
    /\ UNCHANGED <<now, jobs, running, h, user_stats>>
    /\ UNCHANGED challengeVars
    /\ UNCHANGED settingsVars

\* ----------------------------- EnhancedFeatures._send_scheduled_gif
\* the coroutine of a task between its awaits: the record it read at line 228
TaskCallback(k, task) == [pc |-> "es_search", task_id |-> k.task_id, task |-> task]
\* which task fired, and for whom
TaskRequest(task_id, user) == [task_id |-> task_id, user |-> user]

\* the sleep of line 226 is over: the record is gone and the coroutine
\* returns (lines 228-230), or it goes on to the await of search_gif (233)
enhanced_send_scheduled_gif_wake(k) ==
    /\ k \in tasks /\ k.due <= now
    /\ tasks' = tasks \ {k}
    /\ IF k.task_id \notin DOMAIN scheduled_tasks
       THEN /\ ev' = Event("enhanced_send_scheduled_gif_return", None,
                           TaskRequest(k.task_id, None), << >>, "none", None)
            /\ UNCHANGED running
       ELSE /\ running' = running \cup {TaskCallback(k, scheduled_tasks[k.task_id])}
            /\ ev' = Event("enhanced_send_scheduled_gif_wake", scheduled_tasks[k.task_id].chat_id,
                           TaskRequest(k.task_id, scheduled_tasks[k.task_id].user_id),
                           << >>, "none", None)
    /\ UNCHANGED <<now, jobs, h, file, user_stats, scheduled_tasks, nposts>>
    /\ UNCHANGED challengeVars
    /\ UNCHANGED settingsVars

\* search_gif returned: lines 237 and 247 name `context`, which is neither a
\* parameter nor a global of enhanced_features.py, so both branches raise
\* NameError before anything is sent; line 258 catches it, and lines 245 and
\* 253-256 are not reached
enhanced_send_scheduled_gif_done(r, gifs) ==
    /\ r \in running
    /\ r.pc = "es_search"
    /\ running' = running \ {r}
    /\ ev' = Event("enhanced_send_scheduled_gif", r.task.chat_id,
                   TaskRequest(r.task_id, r.task.user_id), << >>,
                   IF IsException("NameError") THEN "none" ELSE "NameError",
                   Outcome(Len(gifs), "NameError"))
    /\ UNCHANGED <<now, jobs, h, file>>
    /\ UNCHANGED challengeVars
    /\ UNCHANGED settingsVars
    /\ UNCHANGED scheduleVars

\* ------------------------------------------------------ specification
DueTimes == {j.due : j \in jobs} \cup {k.due : k \in tasks}

InitSchedule ==
    /\ now \in StartTimes
    /\ challenges = EmptyDict
    /\ jobs = {}
    /\ running = {}
    /\ h = Idle
    /\ file = FileAbsent
    /\ ev = Event("init", None, None, <<>>, "none", None)
    /\ nstarts = 0
    /\ user_stats = EmptyDict
    /\ scheduled_tasks = EmptyDict
    /\ tasks = {}
    /\ nposts = 0
    /\ group_settings = EmptyDict
    /\ tenor = NoClient

\* time passes up to the next due time of a job or of a sleeping task
TickSchedule(t) ==
    /\ t > now
    /\ t \in DueTimes
    /\ \A d \in DueTimes : d >= t
    /\ now' = t
    /\ UNCHANGED <<jobs, running, h, file, ev>>
    /\ UNCHANGED challengeVars
    /\ UNCHANGED settingsVars
    /\ UNCHANGED scheduleVars

NextSchedule ==
    \/ \E t \in DueTimes : TickSchedule(t)
    \/ \E c \in Chats, ts \in TimeStrings, q \in Queries : \E u \in UsersOf(c) :
          schedule_gif_invalid(c, u, ts, q)
    \/ \E c \in Chats, ts \in TimeStrings, q \in Queries : \E u \in UsersOf(c) :
          schedule_gif(c, u, ts, q)
    \/ \E j \in jobs : send_scheduled_gif_fire(j)
    \/ \E r \in running, gifs \in SearchResults : send_scheduled_gif_sent(r, gifs)
    \/ \E r \in running : send_scheduled_gif_no_results(r)
    \/ \E r \in running, gifs \in SearchResults : send_scheduled_gif_send_failed(r, gifs)
    \/ \E c \in Chats, ts \in TimeStrings, q \in Queries : \E u \in UsersOf(c) :
          enhanced_schedule_gif_invalid(c, u, ts, q)
    \/ \E c \in Chats, ts \in TimeStrings, q \in Queries : \E u \in UsersOf(c) :
          enhanced_schedule_gif(c, u, ts, q)
    \/ \E k \in tasks : enhanced_send_scheduled_gif_wake(k)
    \/ \E r \in running, gifs \in SearchResults : enhanced_send_scheduled_gif_done(r, gifs)

SpecSchedule == InitSchedule /\ [][NextSchedule]_vars

\* ------------------------------------------------ challenges after a restart
\* the user_stats of an earlier run, as save_data wrote them
SavedStats == [uid \in {PyStr(PyInt(1))} |-> 3]

\* __init__ when bot_data.json holds the complete snapshot of an earlier run:
\* load_data (line 123) fills the maps from it
InitLoaded ==
    /\ now = 0
    /\ file = FileOk(SavedStats, EmptyDict)
    /\ user_stats = load_data(file).user_stats
    /\ challenges = load_data(file).challenges
    /\ jobs = {}
    /\ running = {}
    /\ h = Idle
    /\ ev = Event("init", None, None, <<>>, "none", None)
    /\ nstarts = 0
    /\ scheduled_tasks = EmptyDict
    /\ tasks = {}
    /\ nposts = 0
    /\ group_settings = EmptyDict
    /\ tenor = NoClient

SpecRestart == InitLoaded /\ [][Next]_vars

\* ------------------------------------------------- challenges in two chats
OtherGroupChat == 0 - 2
TwoChats == {GroupChat, OtherGroupChat}
PostTimes == {<<"0", "9", ":", "0", "0">>}

\* the jobs of the queue by their callback: end_challenge (lines 958-963)
\* and send_scheduled_gif (lines 1096-1102)
ChallengeJobs == {j \in jobs : "chat_id" \in DOMAIN j.data}
PostJobs == {j \in jobs : "query" \in DOMAIN j.data}

\* The handlers and callbacks of the challenges with updates from two group
\* chats, and one /schedule whose post is due the next morning, after the
\* challenges: its job stays in the queue throughout.  No transport call
\* fails; every challenge lasts 10 seconds; user 2 submits.
TwoChatsArgs == {<<"Summer", DigitArg(10)>>}
NextTwoChats ==
    \/ \E j \in ChallengeJobs : Tick(j.due)
    \/ \E c \in TwoChats, args \in TwoChatsArgs : \E u \in UsersOf(c) : start_challenge(c, u, args)
    \/ start_challenge_arm
    \/ \E c \in TwoChats : submit_gif_no_challenge(c, 2)
    \/ \E c \in TwoChats, a \in OneAnim : submit_gif(c, 2, a)
    \/ \E c \in TwoChats : \E u \in UsersOf(c) : cancel_challenge_no_challenge(c, u)
    \/ \E c \in TwoChats : \E u \in UsersOf(c) : cancel_challenge_direct(c, u)
    \/ \E c \in TwoChats : \E u \in UsersOf(c) : cancel_challenge_ask_admin(c, u)
    \/ \E st \in MemberStatus : cancel_challenge_as_admin(st)
    \/ \E st \in MemberStatus : cancel_challenge_not_admin(st)
    \/ cancel_challenge_lookup_failed
    \/ \E j \in ChallengeJobs : end_challenge_return(j)
    \/ \E j \in ChallengeJobs : end_challenge_no_submissions(j)
    \/ \E j \in ChallengeJobs, u \in Users : end_challenge_pick(j, PyStr(PyInt(u)))
    \/ \E r \in running : end_challenge_cleanup(r)
    \/ PostJobs = {} /\ \E ts \in PostTimes, q \in Queries : schedule_gif(GroupChat, 1, ts, q)

SpecTwoChats == Init /\ [][NextTwoChats]_vars

\* ------------------------------------------- challenges, sends succeeding
\* The steps of Next in which no transport call fails: the reply of line 948
\* returns and the sends of end_challenge return.
NextLive ==
    \/ \E j \in jobs : Tick(j.due)
    \/ \E c \in Chats, args \in ChallengeArgs : \E u \in UsersOf(c) : start_challenge(c, u, args)
    \/ start_challenge_arm
    \/ \E c \in Chats : \E u \in UsersOf(c) : submit_gif_no_challenge(c, u)
    \/ \E c \in Chats, a \in OneAnim : \E u \in UsersOf(c) : submit_gif(c, u, a)
    \/ \E c \in Chats : \E u \in UsersOf(c) : cancel_challenge_no_challenge(c, u)
    \/ \E c \in Chats : \E u \in UsersOf(c) : cancel_challenge_direct(c, u)
    \/ \E c \in Chats : \E u \in UsersOf(c) : cancel_challenge_ask_admin(c, u)
    \/ \E st \in MemberStatus : cancel_challenge_as_admin(st)
    \/ \E st \in MemberStatus : cancel_challenge_not_admin(st)
    \/ cancel_challenge_lookup_failed
    \/ \E j \in jobs : end_challenge_return(j)
    \/ \E j \in jobs : end_challenge_no_submissions(j)
    \/ \E j \in jobs, u \in Users : end_challenge_pick(j, PyStr(PyInt(u)))
    \/ \E r \in running : end_challenge_cleanup(r)

\* the job queue runs a due job
JobFires ==
    \E j \in jobs : \/ end_challenge_return(j)
                    \/ end_challenge_no_submissions(j)
                    \/ \E u \in Users : end_challenge_pick(j, PyStr(PyInt(u)))

\* The process keeps running: time passes, an awaited reply returns, the
\* job queue runs its due jobs and a suspended callback is resumed.  Nothing
\* is assumed of what the users send.
FairLive ==
    /\ WF_vars(\E j \in jobs : Tick(j.due))
    /\ WF_vars(start_challenge_arm)
    /\ WF_vars(JobFires)
    /\ WF_vars(\E r \in running : end_challenge_cleanup(r))

SpecLive == Init /\ [][NextLive]_vars /\ FairLive

\* ======================================= chat settings (bot.py lines 681-732)
\* the default factory of the defaultdict (lines 54-58)
DefaultSettings == [passive_mode |-> FALSE, max_gifs |-> 3, safe_mode |-> TRUE]
\* self.group_settings[chat_id]: a missing key gets the default
SettingsOf(gs, chat_id) == IF chat_id \in DOMAIN gs THEN gs[chat_id] ELSE DefaultSettings

SettingsCommands == {"toggle_passive", "set_max_gifs", "toggle_safe_mode"}
\* context.args of /setmax: nothing, or one word
SetMaxWords == {<<"0">>, <<"3">>, <<"7">>, <<"1", "2">>, <<"a">>}
SetMaxArgs == {<< >>} \cup {<<w>> : w \in SetMaxWords}
\* str.isdigit(): not empty, digits only
IsDigitString(w) == w # << >> /\ AllDigits(w)
\* context.args and context.args[0].isdigit()   (line 706)
HasCount(args) == IF args = << >> THEN FALSE ELSE IsDigitString(args[1])

\* a toggle that switches the setting on whatever it was
Toggle_AlwaysOn(current) == TRUE

\* not current   (lines 689, 726)
Toggle(current) == ~current

\* min(int(context.args[0]), 5)   (line 710)
MaxCount(w) == Min(DecimalValue(w), 5)

\* the value a settings command read before it wrote
Was(value) == [value |-> value]

InitSettings ==
    /\ now = 0
    /\ challenges = EmptyDict
    /\ jobs = {}
    /\ running = {}
    /\ h = Idle
    /\ file = FileAbsent
    /\ ev = Event("init", None, None, <<>>, "none", None)
    /\ nstarts = 0
    /\ user_stats = EmptyDict
    /\ scheduled_tasks = EmptyDict
    /\ tasks = {}
    /\ nposts = 0
    /\ group_settings = EmptyDict
    /\ tenor = NoClient

settingsFrame ==
    <<now, challenges, jobs, running, nstarts,
      user_stats, scheduled_tasks, tasks, nposts, tenor>>

\* a settings command in a group chat: is_admin awaits get_chat_member
\* (line 845); nothing has been read, written or sent yet
settings_is_admin(cmd, c, u, args) ==
    /\ h = Idle
    /\ ChatType(c) # "private"
    /\ h' = [pc |-> "st_admin", cmd |-> cmd, chat |-> PyInt(c), user |-> PyInt(u), args |-> args]
    /\ UNCHANGED <<group_settings, file, ev>>
    /\ UNCHANGED settingsFrame

\* a plain member: is_admin replies (line 849) and the handler returns
settings_not_admin(status) ==
    /\ h.pc = "st_admin"
    /\ ~IsAdminStatus(status)
    /\ h' = Idle
    /\ ev' = Event("settings_forbidden", h.chat, Requester(h.user, status),
                   <<"admins_only">>, "none", None)
    /\ UNCHANGED <<group_settings, file>>
    /\ UNCHANGED settingsFrame

\* get_chat_member raised: is_admin returns False (lines 852-854)
settings_lookup_failed ==
    /\ h.pc = "st_admin"
    /\ h' = Idle
    /\ ev' = Event("settings_forbidden", h.chat, Requester(h.user, "failed"),
                   <<>>, "none", None)
    /\ UNCHANGED <<group_settings, file>>
    /\ UNCHANGED settingsFrame

\* lines 686-697
toggle_passive(status) ==
    /\ h.pc = "st_admin" /\ h.cmd = "toggle_passive"
    /\ IsAdminStatus(status)
    /\ LET chat_id == PyStr(h.chat)
           settings == SettingsOf(group_settings, chat_id)
           current == settings.passive_mode
       IN /\ group_settings' = DictSet(group_settings, chat_id,
                                       [settings EXCEPT !.passive_mode = Toggle(current)])
          /\ ev' = Event("toggle_passive", h.chat, Requester(h.user, status),
                         <<IF ~current THEN "passive_enabled" ELSE "passive_disabled">>,
                         save_data_error(challenges), Was(current))
    /\ file' = save_data(user_stats, challenges)
    /\ h' = Idle
    /\ UNCHANGED settingsFrame

\* lines 706-708: no argument, or one that is not a digit string
set_max_gifs_usage(status) ==
    /\ h.pc = "st_admin" /\ h.cmd = "set_max_gifs"
    /\ IsAdminStatus(status)
    /\ ~HasCount(h.args)
    /\ h' = Idle
    /\ ev' = Event("set_max_gifs_usage", h.chat, Requester(h.user, status),
                   <<"usage">>, "none", None)
    /\ UNCHANGED <<group_settings, file>>
    /\ UNCHANGED settingsFrame

\* lines 710-716
set_max_gifs(status) ==
    /\ h.pc = "st_admin" /\ h.cmd = "set_max_gifs"
    /\ IsAdminStatus(status)
    /\ HasCount(h.args)
    /\ LET chat_id == PyStr(h.chat)
           settings == SettingsOf(group_settings, chat_id)
           max_count == MaxCount(h.args[1])
       IN /\ group_settings' = DictSet(group_settings, chat_id,
                                       [settings EXCEPT !.max_gifs = max_count])
          /\ ev' = Event("set_max_gifs", h.chat, Requester(h.user, status),
                         <<"count_set">>, save_data_error(challenges), Was(settings.max_gifs))
    /\ file' = save_data(user_stats, challenges)
    /\ h' = Idle
    /\ UNCHANGED settingsFrame

\* lines 723-732
toggle_safe_mode(status) ==
    /\ h.pc = "st_admin" /\ h.cmd = "toggle_safe_mode"
    /\ IsAdminStatus(status)
    /\ LET chat_id == PyStr(h.chat)
           settings == SettingsOf(group_settings, chat_id)
           current == settings.safe_mode
       IN /\ group_settings' = DictSet(group_settings, chat_id,
                                       [settings EXCEPT !.safe_mode = Toggle(current)])
          /\ ev' = Event("toggle_safe_mode", h.chat, Requester(h.user, status),
                         <<IF ~current THEN "safe_enabled" ELSE "safe_disabled">>,
                         save_data_error(challenges), Was(current))
    /\ file' = save_data(user_stats, challenges)
    /\ h' = Idle
    /\ UNCHANGED settingsFrame

NextSettings ==
    \/ \E cmd \in SettingsCommands, c \in TwoChats, args \in SetMaxArgs : \E u \in UsersOf(c) :
          settings_is_admin(cmd, c, u, IF cmd = "set_max_gifs" THEN args ELSE << >>)
    \/ \E st \in MemberStatus : settings_not_admin(st)
    \/ settings_lookup_failed
    \/ \E st \in MemberStatus : toggle_passive(st)
    \/ \E st \in MemberStatus : set_max_gifs_usage(st)
    \/ \E st \in MemberStatus : set_max_gifs(st)
    \/ \E st \in MemberStatus : toggle_safe_mode(st)

SpecSettings == InitSettings /\ [][NextSettings]_vars

\* ================================================ TenorAPI (src/tenor_api.py)
\* JSON values as json() returns them
JNull == [ty |-> "null"]
JStr(x) == [ty |-> "str", v |-> x]
JDict(d) == [ty |-> "dict", v |-> d]
JList(items) == [ty |-> "list", v |-> items]

\* `not x` of Python
Falsy(x) ==
    \/ x.ty = "null"
    \/ x.ty = "str" /\ x.v = ""
    \/ x.ty = "dict" /\ DOMAIN x.v = {}
    \/ x.ty = "list" /\ x.v = << >>

\* `k in x` for a dict (its keys) and a list (its elements)
HasKey(x, k) ==
    \/ x.ty = "dict" /\ k \in DOMAIN x.v
    \/ x.ty = "list" /\ \E i \in 1..Len(x.v) : x.v[i] = JStr(k)

\* ------------------------------------------------------------------ inputs
\* os.getenv("TENOR_API_KEY"): unset, empty, or a key
ApiKeys == {JNull, JStr(""), JStr("K")}
SearchQueries == {<< >>, <<" ">>, <<"c", "a", "t">>, <<"a", " ", "b">>}
Limits == {1, 10, 60}

Format(url) == JDict([url |-> JStr(url)])
ItemGif == JDict([media_formats |-> JDict([gif |-> Format("U1"), tinygif |-> Format("U2")])])
ItemTinyGif == JDict([media_formats |-> JDict([tinygif |-> Format("U2")])])
ItemMp4 == JDict([media_formats |-> JDict([mp4 |-> Format("U3")])])
ItemNoFormats == JDict([id |-> JStr("7")])
ItemNoUrl == JDict([media_formats |-> JDict([gif |-> JDict([dims |-> JStr("1x1")])])])
ItemNullFormats == JDict([media_formats |-> JNull])

\* the documents a 200 response can carry
Bodies ==
    { JDict([results |-> JList(<<ItemGif>>)]),
      JDict([results |-> JList(<<ItemTinyGif, ItemMp4, ItemNoUrl, ItemGif>>)]),
      JDict([results |-> JList(<<ItemNoFormats, ItemNullFormats>>)]),
      JDict([results |-> JList(<< >>)]),
      JDict([error |-> JStr("quota")]),
      JDict(<< >>),
      JList(<< >>),
      JDict([results |-> JList(<<JStr("oops")>>)]),
      JDict([results |-> JNull]) }

\* what awaiting session.get(...) and response.json() ends with
Response(kind, status, json) == [kind |-> kind, status |-> status, json |-> json]
Responses ==
    {Response("status", 200, b) : b \in Bodies}
    \cup {Response("status", st, JNull) : st \in {404, 429, 500}}
    \cup {Response("timeout", 0, JNull), Response("client_error", 0, JNull),
          Response("bad_json", 200, JNull)}

\* --------------------------------------------------------- pure functions
IsSpace(ch) == ch = " "
RECURSIVE LStrip(_)
LStrip(q) == IF q # << >> /\ IsSpace(Head(q)) THEN LStrip(Tail(q)) ELSE q
RECURSIVE RStrip(_)
RStrip(q) ==
    IF q # << >> /\ IsSpace(q[Len(q)]) THEN RStrip(SubSeq(q, 1, Len(q) - 1)) ELSE q
\* query.strip()
Strip(q) == RStrip(LStrip(q))

\* urllib.parse.quote: a space becomes %20, letters stay
RECURSIVE Quote(_)
Quote(q) ==
    IF q = << >> THEN << >>
    ELSE (IF Head(q) = " " THEN <<"%", "2", "0">> ELSE <<Head(q)>>) \o Quote(Tail(q))

\* the params dict of lines 73-78, with the key added at line 36
Params(query, limit, safe_search, key) ==
    [q |-> Quote(query), limit |-> Min(limit, 50), media_filter |-> "gif",
     contentfilter |-> IF safe_search THEN "high" ELSE "off", key |-> key]

\* what a function call ends with: a value or an exception
Return(val) == [val |-> val, raised |-> "none"]
Raise(e) == [val |-> JNull, raised |-> e]

\* a _make_request whose try has no handler for the timeout
make_request_TimeoutEscapes(resp) ==
    IF resp.kind = "status" /\ resp.status = 200 THEN Return(resp.json)
    ELSE IF resp.kind = "timeout" THEN Raise("TimeoutError")
    ELSE Return(JNull)

\* _make_request after the await of session.get: lines 41-55
make_request(resp) ==
    IF resp.kind = "status" /\ resp.status = 200 THEN Return(resp.json)
    ELSE Return(JNull)

\* fmt['url'] inside the try of line 86: KeyError and TypeError are skipped
FormatUrl(fmt) ==
    IF fmt.ty = "dict" /\ "url" \in DOMAIN fmt.v
    THEN [kind |-> "url", url |-> fmt.v["url"].v]
    ELSE [kind |-> "skip", url |-> ""]

\* one turn of the loop of lines 85-98
ItemUrl(item) ==
    IF item.ty # "dict" THEN [kind |-> "raise", url |-> "AttributeError"]
    ELSE LET gif_formats == IF "media_formats" \in DOMAIN item.v
                            THEN item.v["media_formats"] ELSE JDict(<< >>)
         IN IF gif_formats.ty = "null" THEN [kind |-> "skip", url |-> ""]
            ELSE IF HasKey(gif_formats, "gif") THEN FormatUrl(gif_formats.v["gif"])
            ELSE IF HasKey(gif_formats, "tinygif") THEN FormatUrl(gif_formats.v["tinygif"])
            ELSE [kind |-> "skip", url |-> ""]

RECURSIVE CollectUrls(_, _)
CollectUrls(items, gifs) ==
    IF items = << >> THEN [val |-> gifs, raised |-> "none"]
    ELSE LET step == ItemUrl(Head(items))
         IN IF step.kind = "raise" THEN [val |-> << >>, raised |-> step.url]
            ELSE CollectUrls(Tail(items),
                             IF step.kind = "url" THEN Append(gifs, step.url) ELSE gifs)

\* search_gif from line 80 on
SearchResult(data) ==
    IF Falsy(data) \/ ~HasKey(data, "results") THEN [val |-> << >>, raised |-> "none"]
    ELSE IF data.v["results"].ty # "list" THEN [val |-> << >>, raised |-> "TypeError"]
    ELSE CollectUrls(data.v["results"].v, << >>)

\* ------------------------------------------------------------------ state
Call(query, limit, safe_search) == [query |-> query, limit |-> limit, safe_search |-> safe_search]
NoCall == Call(<< >>, 0, FALSE)
NoResponse == Response("none", 0, JNull)
\* the outcome of a call and whether it issued a request
Finished(res, requested) == [val |-> res.val, raised |-> res.raised, requested |-> requested]
Client(key) ==
    [pc |-> "idle", api_key |-> key, session |-> "none", call |-> NoCall,
     params |-> None, response |-> NoResponse, result |-> Finished(Return(<< >>), FALSE)]

InitTenor ==
    /\ now = 0
    /\ challenges = EmptyDict
    /\ jobs = {}
    /\ running = {}
    /\ h = Idle
    /\ file = FileAbsent
    /\ ev = Event("init", None, None, <<>>, "none", None)
    /\ nstarts = 0
    /\ user_stats = EmptyDict
    /\ scheduled_tasks = EmptyDict
    /\ tasks = {}
    /\ nposts = 0
    /\ group_settings = EmptyDict
    /\ tenor \in {Client(key) : key \in ApiKeys}

tenorFrame ==
    <<now, challenges, jobs, running, h, file, ev, nstarts,
      user_stats, scheduled_tasks, tasks, nposts, group_settings>>

\* lines 69-70: a blank query
search_gif_blank(query, limit, safe_search) ==
    /\ tenor.pc = "idle"
    /\ Strip(query) = << >>
    /\ tenor' = [tenor EXCEPT !.call = Call(query, limit, safe_search),
                              !.params = None, !.response = NoResponse,
                              !.result = Finished(Return(<< >>), FALSE)]
    /\ UNCHANGED tenorFrame

\* lines 32-34: _make_request returns None before any await
search_gif_no_key(query, limit, safe_search) ==
    /\ tenor.pc = "idle"
    /\ Strip(query) # << >>
    /\ Falsy(tenor.api_key)
    /\ tenor' = [tenor EXCEPT !.call = Call(query, limit, safe_search),
                              !.params = None, !.response = NoResponse,
                              !.result = Finished(SearchResult(JNull), FALSE)]
    /\ UNCHANGED tenorFrame

\* lines 36-41: the session is opened and session.get is awaited
search_gif_get(query, limit, safe_search) ==
    /\ tenor.pc = "idle"
    /\ Strip(query) # << >>
    /\ ~Falsy(tenor.api_key)
    /\ tenor' = [tenor EXCEPT !.pc = "get", !.session = "open",
                              !.call = Call(query, limit, safe_search),
                              !.params = Params(query, limit, safe_search, tenor.api_key.v),
                              !.response = NoResponse]
    /\ UNCHANGED tenorFrame

\* the await of line 41 ended: the rest of _make_request and of search_gif
search_gif_done(resp) ==
    /\ tenor.pc = "get"
    /\ LET made == make_request(resp)
       IN tenor' = [tenor EXCEPT !.pc = "idle", !.response = resp,
                                 !.result = IF made.raised # "none"
                                            THEN Finished(Raise(made.raised), TRUE)
                                            ELSE Finished(SearchResult(made.val), TRUE)]
    /\ UNCHANGED tenorFrame

NextTenor ==
    \/ \E q \in SearchQueries, l \in Limits, sf \in BOOLEAN : search_gif_blank(q, l, sf)
    \/ \E q \in SearchQueries, l \in Limits, sf \in BOOLEAN : search_gif_no_key(q, l, sf)
    \/ \E q \in SearchQueries, l \in Limits, sf \in BOOLEAN : search_gif_get(q, l, sf)
    \/ \E resp \in Responses : search_gif_done(resp)

SpecTenor == InitTenor /\ [][NextTenor]_vars

\* ================================================================== claims
\* a step of a handler or callback (the clock leaves ev alone)
Acted(act) == ev'.act = act /\ now' = now
ChatKey(event) == PyStr(event.chat)

\* C1: the timer that start_challenge arms is never due before the end_time
\* of the record the same start_challenge wrote (job id = gen of the record).
C1_TimerNotBeforeEndTime ==
    \A j \in jobs : \A k \in DOMAIN challenges :
        challenges[k].gen = j.id => j.due >= challenges[k].end_time.v

\* C2: the delay every resolution timer is armed with lies in [30, 86400].
C2_ArmedDelayClamped ==
    \A j \in jobs : j.when >= MinDuration /\ j.when <= MaxDuration

\* C3: right after a successful cancel_challenge the chat has no record and
\* no armed resolution timer.
C3_CancelDisarmsTimer ==
    (ev.act = "cancel_challenge" /\ ev.error = "none") =>
        /\ ChatKey(ev) \notin DOMAIN challenges
        /\ \A j \in jobs : PyStr(j.chat_id) # ChatKey(ev)

\* C4: the timer of a replaced challenge is a no-op: a running end_challenge
\* callback only ever acts on the record written by the start that armed it.
C4_StaleTimerNoOp ==
    \A r \in running : r.gen = r.id

\* C5: a chat has at most one record, and right after start_challenge the
\* chat's record is the new one (theme, creator, end_time) with no
\* participants, whatever was there before.
C5_OneRecordPerChat ==
    /\ \A c \in Chats : Cardinality({k \in DOMAIN challenges : k.v = c}) <= 1
    /\ ev.act = "start_challenge" =>
          /\ h.pc = "sc_reply"
          /\ ChatKey(ev) \in DOMAIN challenges
          /\ challenges[ChatKey(ev)] =
                [theme |-> h.theme, creator |-> h.user, participants |-> EmptyDict,
                 end_time |-> h.end_time, gen |-> h.gen]

\* C5 witness: a start has just replaced a record that had submissions.
C5_Witness ==
    /\ ev.act = "start_challenge"
    /\ ev.prev # None
    /\ ev.prev.participants > 0
    /\ challenges[ChatKey(ev)].participants = EmptyDict

\* C6: an accepted submit_gif of user u with animation a leaves exactly one
\* entry for u, holding a (so of two successive submissions the later one
\* stands), and leaves every other entry and every other field as it was.
C6_LaterSubmissionWins ==
    [][Acted("submit_gif") =>
            LET k == ChatKey(ev')
                uid == PyStr(ev'.who.user)
                a == ev'.who.animation
                P == challenges[k].participants
                Q == challenges'[k].participants
            IN /\ k \in DOMAIN challenges
               /\ DOMAIN challenges' = DOMAIN challenges
               /\ DOMAIN Q = DOMAIN P \cup {uid}
               /\ Q[uid] = a
               /\ ev'.prev = (IF uid \in DOMAIN P THEN P[uid] ELSE NoAnim)
               /\ \A v \in DOMAIN P \ {uid} : Q[v] = P[v]
               /\ challenges' = [challenges EXCEPT ![k].participants = Q]]_vars

\* C6 witness: a user who had submitted one animation has just submitted
\* another one, while another participant has an entry too.
C6_Witness ==
    /\ ev.act = "submit_gif"
    /\ ev.prev \in Anims
    /\ ev.who.animation # ev.prev
    /\ LET P == challenges[ChatKey(ev)].participants
       IN /\ P[PyStr(ev.who.user)] = ev.who.animation
          /\ Cardinality(DOMAIN P) = 2

\* C7: cancel_challenge removes the record only for the creator of the record
\* or a requester whose member status is administrator or creator, and then
\* the chat has no record; for any other requester (plain member, or failed
\* lookup) it changes no record and replies that cancelling is forbidden.
C7_CancelAuthorization ==
    [][/\ Acted("cancel_challenge") =>
            /\ \/ ev'.who.status \in {"administrator", "creator"}
               \/ /\ ChatKey(ev') \in DOMAIN challenges
                  /\ ev'.who.user = challenges[ChatKey(ev')].creator
            /\ ChatKey(ev') \notin DOMAIN challenges'
            /\ \A k \in DOMAIN challenges' : k \in DOMAIN challenges /\ challenges'[k] = challenges[k]
       /\ Acted("cancel_challenge_forbidden") =>
            /\ ev'.who.status \in {"member", "failed"}
            /\ ChatKey(ev') \in DOMAIN challenges => ev'.who.user # challenges[ChatKey(ev')].creator
            /\ challenges' = challenges
            /\ ev'.sent[Len(ev'.sent)] = "forbidden"
       /\ (h.pc = "cc_admin" /\ h'.pc # "cc_admin") =>
            ev'.act \in {"cancel_challenge", "cancel_challenge_forbidden"}
       /\ (h.pc # "cc_admin" /\ h'.pc = "cc_admin") =>
            /\ PyStr(h'.chat) \in DOMAIN challenges
            /\ h'.user # challenges[PyStr(h'.chat)].creator
            /\ UNCHANGED challenges]_vars

\* C7 witness: a requester who is not the creator and whose admin lookup
\* failed has just been refused, and the record is still there.
C7_Witness ==
    /\ ev.act = "cancel_challenge_forbidden"
    /\ ev.who.status = "failed"
    /\ ChatKey(ev) \in DOMAIN challenges
    /\ challenges[ChatKey(ev)].creator # ev.who.user

\* C8: an end_challenge callback that found a record ends having sent its
\* announcement (no submissions, or one winner and the winner's animation)
\* and with the chat's record removed.
C8_ResolveAnnouncesAndRemoves ==
    ev.act = "end_challenge" =>
        /\ ChatKey(ev) \notin DOMAIN challenges
        /\ \/ ev.sent = <<[kind |-> "no_submissions"]>>
           \/ /\ Len(ev.sent) = 2
              /\ ev.sent[1].kind = "winner"
              /\ ev.sent[2].kind = "animation"

\* C9: end_challenge fired for a chat without a record returns at once: no
\* message, no exception, no change to challenges, file, callbacks, handler.
C9_ResolveWithoutRecordIsNoOp ==
    [][(now' = now /\ \E j \in jobs : j \notin jobs' /\ PyStr(j.chat_id) \notin DOMAIN challenges) =>
        /\ ev'.act = "end_challenge_return"
        /\ ev'.sent = << >>
        /\ ev'.error = "none"
        /\ UNCHANGED <<challenges, file, running, h, nstarts>>]_vars

\* C9 witness: a timer has just fired for a chat whose record was gone.
C9_Witness ==
    /\ ev.act = "end_challenge_return"
    /\ ChatKey(ev) \notin DOMAIN challenges
    /\ nstarts > 0

\* C10: end_challenge never ends with an exception because the record was
\* deleted while it was suspended.
C10_ResolveToleratesMissingRecord ==
    ev.act = "end_challenge" => ev.error # "KeyError"

\* C11: an end_challenge callback that found a record never ends by raising
\* the transport error of a failed send, and when it has ended the chat's
\* record is removed.
C11_SendFailureStillRemoves ==
    ev.act = "end_challenge" =>
        /\ ev.error # "TransportError"
        /\ ChatKey(ev) \notin DOMAIN challenges

\* C12: submit_gif and cancel_challenge in a chat without a record reply
\* "no active challenge" and change nothing: no record of any chat, no job,
\* no callback, no file; and only a chat with a record gets any other outcome.
C12_NotFoundIsNoOp ==
    [][/\ (Acted("submit_gif_no_challenge") \/ Acted("cancel_challenge_no_challenge")) =>
            /\ ChatKey(ev') \notin DOMAIN challenges
            /\ ev'.sent = <<"no_active">>
            /\ ev'.error = "none"
            /\ UNCHANGED <<challenges, jobs, running, file, h, nstarts>>
       /\ (h = Idle /\ now' = now
             /\ ev'.act \in {"submit_gif", "cancel_challenge", "cancel_challenge_ask_admin"}) =>
            ChatKey(ev') \in DOMAIN challenges]_vars

\* C12 witness: a cancel in a chat whose record is gone has just been
\* answered "no active challenge" while a resolution timer is still armed.
C12_Witness ==
    /\ ev.act = "cancel_challenge_no_challenge"
    /\ ChatKey(ev) \notin DOMAIN challenges
    /\ \E j \in jobs : PyStr(j.chat_id) = ChatKey(ev)

\* C19: when a mutating operation has completed, load_data of the file
\* yields the user stats and the challenge records that are in memory.
C19_SnapshotEqualsMemory ==
    (h = Idle /\ ev.error = "none"
      /\ ev.act \in {"start_challenge_arm", "submit_gif", "cancel_challenge", "end_challenge"}) =>
        load_data(file) = [user_stats |-> user_stats, challenges |-> challenges]

\* C20: a save_data that fails (the file is left partial) raises nothing to
\* the operation that called it: the operation keeps its write to
\* challenges and goes on to its reply.
C20_FailedSaveIsOnlyLogged ==
    [][(now' = now /\ file' = FilePartial
         /\ ev'.act \in {"start_challenge", "submit_gif", "cancel_challenge", "end_challenge"}
         /\ ev'.error \notin {"KeyError", "TransportError"}) =>   \* save_data was reached
            /\ ev'.error = "none"
            /\ ev'.act = "start_challenge" =>
                  /\ h'.pc = "sc_reply"
                  /\ ev'.sent = <<"new_challenge">>
                  /\ ChatKey(ev') \in DOMAIN challenges'
                  /\ challenges'[ChatKey(ev')].gen = h'.gen
            /\ ev'.act = "submit_gif" =>
                  /\ ev'.sent = <<"received">>
                  /\ challenges'[ChatKey(ev')].participants[PyStr(ev'.who.user)] = ev'.who.animation
            /\ ev'.act \in {"cancel_challenge", "end_challenge"} =>
                  ChatKey(ev') \notin DOMAIN challenges']_vars

\* C20 witness: a submission has just been recorded and answered although
\* the save it triggered failed.
C20_Witness ==
    /\ ev.act = "submit_gif"
    /\ file = FilePartial
    /\ ev.sent = <<"received">>
    /\ ~JsonSerializable(challenges)

\* the time of day a string h:mm denotes, in seconds
WallClock(time_str) ==
    DecimalValue(Split(time_str)[1]) * 3600 + DecimalValue(Split(time_str)[2]) * 60
Midnight(t) == (t \div 86400) * 86400

\* C13: both schedule operations arm their timer for HH:MM today when that
\* time is still ahead of now and for HH:MM tomorrow when it has passed; the
\* delay is the distance from now to that instant, never negative and never
\* more than 24 hours.
C13_TodayOrTomorrow ==
    [][(Acted("schedule_gif") \/ Acted("enhanced_schedule_gif")) =>
        LET today == Midnight(now) + WallClock(ev'.who.time_str)
            fire == ev'.prev.fire_at
            delay == ev'.prev.delay
        IN /\ today > now => fire = today
           /\ today < now => fire = today + 86400
           /\ fire \in {today, today + 86400}
           /\ delay = fire - now
           /\ delay >= 0 /\ delay <= 86400
           /\ \/ \E j \in jobs' \ jobs : j.due = fire /\ j.when = delay
              \/ \E k \in tasks' \ tasks : k.due = fire /\ k.delay = delay]_vars

\* C13 witness: a post asked for a time of day that has passed has just been
\* armed for the next day.
C13_Witness ==
    /\ ev.act \in {"schedule_gif", "enhanced_schedule_gif"}
    /\ Midnight(now) + WallClock(ev.who.time_str) < now
    /\ ev.prev.fire_at = Midnight(now) + 86400 + WallClock(ev.who.time_str)
    /\ ev.prev.delay > 0

\* a 24-hour time: an hour 0-23 in one or two digits, a colon, a minute 00-59
\* in two digits
ClockTime(s) ==
    /\ Len(Split(s)) = 2
    /\ LET hh == Split(s)[1]
           mm == Split(s)[2]
       IN /\ Len(hh) \in {1, 2} /\ AllDigits(hh) /\ DecimalValue(hh) <= 23
          /\ Len(mm) = 2 /\ AllDigits(mm) /\ DecimalValue(mm) <= 59

\* C14: GIFBot.schedule_gif accepts a time string only when it is a 24-hour
\* time with hour 0-23 and minute 00-59; every other string gets the
\* invalid-format reply and arms no job, stores no record, changes nothing.
C14_BotRejectsMalformedTime ==
    [][/\ Acted("schedule_gif") => ClockTime(ev'.who.time_str)
       /\ Acted("schedule_gif_invalid") =>
            /\ ~ClockTime(ev'.who.time_str)
            /\ ev'.sent = <<"invalid_time">>
            /\ UNCHANGED <<jobs, running, file, h>>
            /\ UNCHANGED scheduleVars]_vars

\* C14 witness: "25:00" has just been rejected while an earlier post is
\* pending.
C14_Witness ==
    /\ ev.act = "schedule_gif_invalid"
    /\ ev.who.time_str = <<"2", "5", ":", "0", "0">>
    /\ jobs # {}

\* C15: EnhancedFeatures.schedule_gif accepts only two-digit-hour ":"
\* two-digit-minute strings within 00-23 and 00-59.
C15_EnhancedRejectsMalformedTime ==
    ev.act = "enhanced_schedule_gif" =>
        LET s == ev.who.time_str
        IN /\ Len(s) = 5 /\ s[3] = ":"
           /\ AllDigits(SubSeq(s, 1, 2)) /\ DecimalValue(SubSeq(s, 1, 2)) <= 23
           /\ AllDigits(SubSeq(s, 4, 5)) /\ DecimalValue(SubSeq(s, 4, 5)) <= 59

\* C16: a post job fires once; when its search returned a result and the
\* animation was sent, the requester's counter grows by exactly 1 and no other
\* counter changes; when the search returned nothing the "no results" notice
\* is sent and no counter changes.
C16_PostFiresOnceAndCredits ==
    [][/\ Acted("send_scheduled_gif_fire") =>
            \E j \in jobs : /\ jobs' = jobs \ {j}
                            /\ \A i \in jobs' : i.id # j.id
                            /\ \A r \in running : r.pc = "sg_search" => r.id # j.id
       /\ Acted("send_scheduled_gif") =>
            LET uid == PyStr(ev'.who.user)
            IN /\ Cardinality(running') = Cardinality(running) - 1
               /\ ev'.error = "none"
               /\ (ev'.prev.results > 0 /\ ev'.prev.send = "sent") =>
                     /\ Len(ev'.sent) = 1 /\ ev'.sent[1].kind = "animation"
                     /\ user_stats' = [v \in DOMAIN user_stats \cup {uid} |->
                                          IF v = uid THEN DictGet(user_stats, uid, 0) + 1
                                          ELSE user_stats[v]]
               /\ (ev'.prev.results = 0 /\ ev'.prev.send = "sent") =>
                     /\ ev'.sent = <<[kind |-> "no_results"]>>
                     /\ user_stats' = user_stats
               /\ ev'.prev.send = "failed" => user_stats' = user_stats]_vars

\* C16 witness: the second post of one requester has just been sent, and the
\* requester's counter went from 1 to 2.
C16_Witness ==
    /\ ev.act = "send_scheduled_gif"
    /\ ev.prev.results > 0 /\ ev.prev.send = "sent"
    /\ user_stats[PyStr(ev.who.user)] = 2

\* C17: the id of a new scheduled post is not the id of a pending record, no
\* pending record is ever overwritten, and a timer that fires reads the
\* record it was created for.
C17_TaskIdsUnique ==
    [][/\ Acted("enhanced_schedule_gif") =>
            /\ Cardinality(DOMAIN scheduled_tasks') = Cardinality(DOMAIN scheduled_tasks) + 1
            /\ \E k \in tasks' \ tasks : k.task_id \notin DOMAIN scheduled_tasks
       /\ \A id \in DOMAIN scheduled_tasks :
            id \in DOMAIN scheduled_tasks' => scheduled_tasks'[id] = scheduled_tasks[id]
       /\ Acted("enhanced_send_scheduled_gif_wake") =>
            \E k \in tasks \ tasks' :
                /\ k.task_id = ev'.who.task_id
                /\ scheduled_tasks[k.task_id].time = k.due
                /\ scheduled_tasks[k.task_id].user_id = ev'.who.user]_vars

\* C17 witness: a post has just been scheduled while the record of an earlier
\* post, whose timer has fired, is still in scheduled_tasks.
C17_Witness ==
    /\ ev.act = "enhanced_schedule_gif"
    /\ Cardinality(DOMAIN scheduled_tasks) = 2
    /\ \E id \in DOMAIN scheduled_tasks : \A k \in tasks : k.task_id # id

\* C18: when the completion routine of a scheduled task has run for a record
\* that existed, it has sent the animation or the "no results" notice and the
\* record is no longer in scheduled_tasks.
C18_TaskCompletes ==
    ev.act = "enhanced_send_scheduled_gif" =>
        /\ ev.sent # << >>
        /\ ev.who.task_id \notin DOMAIN scheduled_tasks
\* a provider failure: no key, a status other than 200, a timeout, a request
\* exception
ProviderFailure(client) ==
    \/ Falsy(client.api_key)
    \/ client.response.kind \in {"timeout", "client_error"}
    \/ client.response.kind = "status" /\ client.response.status # 200

\* C21: a search_gif call that ends on a provider failure (no API key, a
\* status other than 200, a timeout, a request exception) raises nothing and
\* returns the empty list; a call with a blank query returns the empty list
\* at once, without a request.
C21_SearchNeverRaisesOnFailure ==
    [][(tenor'.pc = "idle" /\ tenor' # tenor) =>
        /\ Strip(tenor'.call.query) = << >> =>
              /\ tenor.pc = "idle"
              /\ tenor'.result = Finished(Return(<< >>), FALSE)
              /\ tenor'.params = None
        /\ (Strip(tenor'.call.query) # << >> /\ ProviderFailure(tenor')) =>
              /\ tenor'.result.raised = "none"
              /\ tenor'.result.val = << >>
        /\ Falsy(tenor'.api_key) => ~tenor'.result.requested]_vars

\* C21 witness: a search that issued its request and timed out has returned
\* the empty list.
C21_Witness ==
    /\ tenor.pc = "idle"
    /\ tenor.response.kind = "timeout"
    /\ tenor.result = Finished(Return(<< >>), TRUE)
    /\ Strip(tenor.call.query) # << >>
\* C22: whatever end_challenge callbacks are suspended, a submit_gif ends
\* without an exception: it writes the submission into the record the chat
\* has at that moment and answers "received", or it answers "no active
\* challenge" and writes nothing.
C22_SubmitNeverCrashes ==
    [][/\ Acted("submit_gif") =>
            LET k == ChatKey(ev')
            IN /\ ev'.error = "none"
               /\ ev'.sent = <<"received">>
               /\ k \in DOMAIN challenges /\ k \in DOMAIN challenges'
               /\ challenges'[k].gen = challenges[k].gen
               /\ challenges'[k].participants[PyStr(ev'.who.user)] = ev'.who.animation
       /\ Acted("submit_gif_no_challenge") =>
            /\ ev'.error = "none"
            /\ ev'.sent = <<"no_active">>
            /\ ChatKey(ev') \notin DOMAIN challenges
            /\ UNCHANGED challenges]_vars

\* C22 witness: a submission has just been recorded while an end_challenge
\* callback of the same chat is suspended at an await.
C22_Witness ==
    /\ ev.act = "submit_gif"
    /\ ev.sent = <<"received">>
    /\ \E r \in running : r.chat_id = ChatKey(ev)

\* C23: no challenge record is announced twice: when a callback has just
\* announced the end of a record, the callback that announced before it
\* announced another record.
C23_ResolvedOnce ==
    [][(/\ ev.act = "end_challenge" /\ ev.sent # << >>
        /\ Acted("end_challenge") /\ ev'.sent # << >>
        /\ running' # running)
       => ev'.who.gen # ev.who.gen]_vars

\* C24: the record end_challenge deletes at its end is the record it took on
\* entry and announced.
C24_CleanupDeletesOwnRecord ==
    (ev.act = "end_challenge" /\ ev.prev # None) => ev.prev.gen = ev.who.gen

\* C25: a submission is not acknowledged into a record whose end is already
\* being announced, that is, whose winner (or "no submissions") a suspended
\* end_challenge callback has already settled.
C25_AcceptedSubmissionCounts ==
    (ev.act = "submit_gif" /\ ev.sent = <<"received">> /\ ChatKey(ev) \in DOMAIN challenges)
        => \A r \in running : r.gen # challenges[ChatKey(ev)].gen
HasRecord(g) == \E k \in DOMAIN challenges : challenges[k].gen = g

\* C26: when the process keeps running, armed timers fire and sends
\* succeed, every challenge record that is in the store is eventually out of
\* it again.
C26_EveryRecordRemoved == \A g \in 1..MaxStarts : HasRecord(g) ~> ~HasRecord(g)

\* C26 witness: a record has just been removed by its own resolution and
\* the store is empty.
C26_Witness ==
    /\ ev.act = "end_challenge"
    /\ ev.error = "none"
    /\ ev.prev # None /\ ev.prev.gen = ev.who.gen
    /\ challenges = EmptyDict
\* C27: a save_data that fails leaves the file holding the last complete
\* snapshot: what load_data restores after the failed save is what it
\* restored before it.
C27_FailedSaveKeepsLastSnapshot ==
    [][(/\ file.state = "ok"
        /\ now' = now
        /\ ev'.act \in {"start_challenge", "submit_gif", "cancel_challenge", "end_challenge"}
        /\ ev'.error \notin {"KeyError", "TransportError"}
        /\ JsonDumpRaises(challenges') # "none")
       => load_data(file') = load_data(file)]_vars
\* the key of every chat other than the one the last step was executed for
OtherChats(event) == (DOMAIN challenges \cup DOMAIN challenges') \ {ChatKey(event)}

\* C28: a step of start_challenge, submit_gif, cancel_challenge or
\* end_challenge executed for one chat leaves the challenge record of every
\* other chat as it was (none created, changed or deleted), and a
\* cancel_challenge removes no resolution job of another chat and no
\* scheduled-post job.
C28_ChatIsolation ==
    [][/\ (now' = now /\ ev'.act \in {"start_challenge", "start_challenge_arm",
                                      "submit_gif", "submit_gif_no_challenge",
                                      "cancel_challenge", "cancel_challenge_no_challenge",
                                      "cancel_challenge_ask_admin", "cancel_challenge_forbidden",
                                      "end_challenge", "end_challenge_return",
                                      "end_challenge_no_submissions", "end_challenge_pick"}) =>
            \A k \in OtherChats(ev') :
                /\ k \in DOMAIN challenges /\ k \in DOMAIN challenges'
                /\ challenges'[k] = challenges[k]
       /\ (now' = now /\ ev'.act \in {"cancel_challenge", "cancel_challenge_no_challenge",
                                      "cancel_challenge_ask_admin", "cancel_challenge_forbidden"}) =>
            \A j \in jobs : (j \in PostJobs \/ j.chat_id # ev'.chat) => j \in jobs']_vars

\* C28 witness: a challenge has just been cancelled in one chat while the
\* other chat has its record and its armed resolution job, and a
\* scheduled-post job is pending.
C28_Witness ==
    /\ ev.act = "cancel_challenge" /\ ev.sent = <<"canceled">>
    /\ \E k \in DOMAIN challenges : k # ChatKey(ev)
    /\ \E j \in ChallengeJobs : j.chat_id # ev.chat
    /\ PostJobs # {}
\* C29: the max_gifs setting of every chat is within 1..5.
C29_MaxGifsWithinRange ==
    \A chat_id \in DOMAIN group_settings :
        group_settings[chat_id].max_gifs >= 1 /\ group_settings[chat_id].max_gifs <= 5

\* the value of a toggle setting of a chat, stored or default
Setting(gs, event) ==
    IF event.act = "toggle_passive" THEN SettingsOf(gs, ChatKey(event)).passive_mode
    ELSE SettingsOf(gs, ChatKey(event)).safe_mode

\* C30: in a group chat a settings command leaves group_settings unchanged
\* unless the requester was found to be administrator or creator; a toggle
\* by an admin inverts its setting and nothing else, and a second toggle of
\* the same setting right after restores the value the first one found.
C30_AdminOnlySettings ==
    [][/\ group_settings' # group_settings =>
            /\ h.pc = "st_admin" /\ h' = Idle
            /\ ev'.act \in SettingsCommands
            /\ ev'.who.status \in {"administrator", "creator"}
            /\ \A k \in DOMAIN group_settings' :
                  k # ChatKey(ev') => k \in DOMAIN group_settings
                                      /\ group_settings'[k] = group_settings[k]
       /\ (h.pc = "st_admin" /\ h' = Idle /\ ev'.act = "settings_forbidden") =>
            /\ ev'.who.status \notin {"administrator", "creator"}
            /\ UNCHANGED group_settings
       /\ (h.pc = "st_admin" /\ h' = Idle
           /\ ev'.act \in {"toggle_passive", "toggle_safe_mode"}) =>
            /\ Setting(group_settings', ev') = ~Setting(group_settings, ev')
            /\ \E f \in {"passive_mode", "max_gifs", "safe_mode"} :
                  \A g \in {"passive_mode", "max_gifs", "safe_mode"} \ {f} :
                      SettingsOf(group_settings', ChatKey(ev'))[g]
                          = SettingsOf(group_settings, ChatKey(ev'))[g]
            /\ (ev.act = ev'.act /\ ev.chat = ev'.chat) =>
                  Setting(group_settings', ev') = ev.prev.value]_vars

\* C30 witness: an admin's second toggle of passive mode has just put the
\* setting back to the value it had before the first.
C30_Witness ==
    /\ ev.act = "toggle_passive"
    /\ ev.who.status \in {"administrator", "creator"}
    /\ ev.prev.value = TRUE
    /\ ChatKey(ev) \in DOMAIN group_settings
    /\ group_settings[ChatKey(ev)].passive_mode = DefaultSettings.passive_mode
====
